---- MODULE Spec2Model ----
(***************************************************************************)
(* RISC-V 64 backend of the mold linker (elf/arch-riscv64.cc): the         *)
(* bit-field codec, the PLT stub emitters, the .eh_frame relocation        *)
(* applier, and the scan / apply passes over one input section.            *)
(*                                                                         *)
(* Machine words are bit vectors (functions from bit position to 0/1), so  *)
(* that 32- and 64-bit wrap-around is exact; memory is a sequence of       *)
(* bytes, read and written little-endian.  Word-sized inputs are kept in   *)
(* the state as integers in the signed window -2^31 .. 2^31-1 and turned   *)
(* into bit vectors by two's complement.                                   *)
(***************************************************************************)
EXTENDS Integers, Sequences, FiniteSets, TLC

VARIABLES
  buf,            \* ctx.buf: the bytes of the region an operation writes
  contents,       \* the same bytes before the operation (the input section's contents)
  pc,             \* position of the running operation
  val,            \* codec / .eh_frame: the u32 / u64 value argument
  rels,           \* get_rels(ctx): the section's relocation records
  rel_fragments,  \* the section's fragment references, ascending in idx
  kind,           \* the output kind: "DSO", "PIE" or "PDE"
  sec_addr,       \* output_section->shdr.sh_addr + offset (or eh_frame's sh_addr)
  idx,            \* the loop variable i (from 1)
  frag_idx,       \* apply_reloc_alloc's frag_idx (from 1)
  needs_dynrel,   \* needs_dynrel[i]
  needs_baserel,  \* needs_baserel[i]
  symflags,       \* sym.flags of every symbol
  num_dynrel,     \* file.num_dynrel
  reldyn_offset,  \* this->reldyn_offset
  file_reldyn,    \* file.reldyn_offset
  reldyn,         \* the records of .rela.dyn, by slot
  dynrel,         \* apply_reloc_alloc's cursor into .rela.dyn, a byte offset
  diag,           \* the diagnostics reported, <<pass, kind, i>>
  layout,         \* stub emitters: where .plt, .plt.got, .got.plt and .got lie
  writer          \* stub emitters: per byte of buf, the emitters that wrote it

secvars ==
  <<rels, rel_fragments, kind, sec_addr, idx, frag_idx, needs_dynrel, needs_baserel,
    symflags, num_dynrel, reldyn_offset, file_reldyn, reldyn, dynrel, diag,
    layout, writer>>

vars == <<buf, contents, pc, val, secvars>>

(***************************************************************************)
(* Fixed-width unsigned arithmetic.                                        *)
(***************************************************************************)

\* Bit k of the two's-complement representation of the integer v.
IntBit(v, k) == IF k >= 31 THEN (IF v < 0 THEN 1 ELSE 0) ELSE (v \div (2^k)) % 2

\* The integer v as an n-bit word (v modulo 2^n).
ToBits(v, n) == [k \in 0..(n-1) |-> IntBit(v, k)]

Width(a) == Cardinality(DOMAIN a)

\* Conversion between widths: truncation, or zero extension.
Cast(a, n) == [k \in 0..(n-1) |-> IF k \in DOMAIN a THEN a[k] ELSE 0]

And(a, b) == [k \in DOMAIN a |-> IF a[k] = 1 /\ b[k] = 1 THEN 1 ELSE 0]

Or(a, b) == [k \in DOMAIN a |-> IF a[k] = 1 \/ b[k] = 1 THEN 1 ELSE 0]

Not(a) == [k \in DOMAIN a |-> 1 - a[k]]

Shl(a, s) == [k \in DOMAIN a |-> IF k - s \in DOMAIN a THEN a[k - s] ELSE 0]

Shr(a, s) == [k \in DOMAIN a |-> IF k + s \in DOMAIN a THEN a[k + s] ELSE 0]

\* Byte j of the word a (bits 8j+7 .. 8j), as a number.
ByteOf(a, j) ==
  a[8*j] + 2 * a[8*j+1] + 4 * a[8*j+2] + 8 * a[8*j+3] + 16 * a[8*j+4]
    + 32 * a[8*j+5] + 64 * a[8*j+6] + 128 * a[8*j+7]

\* a + b + cin modulo 2^Width(a), Width(a) a multiple of 8: the sum byte by
\* byte, the carry rippling from each byte to the next.
AddC(a, b, cin) ==
  LET n == Width(a) \div 8
      c[j \in 0..n] == IF j = 0 THEN cin
                       ELSE (ByteOf(a, j-1) + ByteOf(b, j-1) + c[j-1]) \div 256
  IN  [k \in DOMAIN a |->
         ((ByteOf(a, k \div 8) + ByteOf(b, k \div 8) + c[k \div 8]) \div (2^(k % 8))) % 2]
        @@ <<>>

Add(a, b) == AddC(a, b, 0)

Sub(a, b) == AddC(a, Not(b), 1)

\* A binary literal, digits as written (most significant first), as an n-bit word.
FromBinary(d, n) == [k \in 0..(n-1) |-> IF k < Len(d) THEN d[Len(d) - k] ELSE 0]

(***************************************************************************)
(* Little-endian memory access on a byte sequence (offsets from 0).        *)
(***************************************************************************)

\* Bit k of the little-endian value stored at byte offset off of b.
MemBit(b, off, k) == (b[off + (k \div 8) + 1] \div (2^(k % 8))) % 2

\* *(uN *)(b + off), N = 8 * nbytes.
Load(b, off, nbytes) == [k \in 0..(8 * nbytes - 1) |-> MemBit(b, off, k)]

\* *(uN *)(b + off) = a, N = Width(a).
Store(b, off, a) ==
  [j \in DOMAIN b |->
     IF j - 1 >= off /\ 8 * (j - 1 - off) < Width(a) THEN ByteOf(a, j - 1 - off)
     ELSE b[j]]

(***************************************************************************)
(* Bit-field codec.                                                        *)
(***************************************************************************)

bit(v, pos) ==
  IF And(v, Shl(ToBits(1, 32), pos)) # ToBits(0, 32) THEN ToBits(1, 32)
  ELSE ToBits(0, 32)

\* Returns [hi:lo] bits of v.
bits(v, hi, lo) == And(Shr(v, lo), ToBits(2^(hi - lo + 1) - 1, 32))

itype(v) == Shl(v, 20)

stype(v) == Or(Shl(bits(v, 11, 5), 25), Shl(bits(v, 4, 0), 7))

btype(v) ==
  Or(Or(Shl(bit(v, 12), 31), Shl(bits(v, 10, 5), 25)),
     Or(Shl(bits(v, 4, 1), 8), Shl(bit(v, 11), 7)))

utype_nocomp(v) == Shl(bits(v, 31, 12), 12)

utype(v) == Shl(bits(Add(v, ToBits(2048, 32)), 31, 12), 12)

jtype(v) ==
  Or(Or(Shl(bit(v, 20), 31), Shl(bits(v, 10, 1), 21)),
     Or(Shl(bit(v, 11), 20), Shl(bits(v, 19, 12), 12)))

cbtype(v) ==
  Or(Or(Or(Shl(bit(v, 8), 12), Shl(bit(v, 4), 11)),
        Or(Shl(bit(v, 3), 10), Shl(bit(v, 7), 6))),
     Or(Or(Shl(bit(v, 6), 5), Shl(bit(v, 2), 4)),
        Or(Shl(bit(v, 1), 3), Shl(bit(v, 5), 2))))

cjtype(v) ==
  Or(Or(Or(Shl(bit(v, 11), 12), Shl(bit(v, 4), 11)),
        Or(Shl(bit(v, 9), 10), Shl(bit(v, 8), 9))),
     Or(Or(Or(Shl(bit(v, 10), 8), Shl(bit(v, 6), 7)),
           Or(Shl(bit(v, 7), 6), Shl(bit(v, 3), 5))),
        Or(Or(Shl(bit(v, 2), 4), Shl(bit(v, 1), 3)), Shl(bit(v, 5), 2))))

\* The masks, digit for digit as the source writes them.
itype_mask ==
  FromBinary(<<0,0,0,0,0,0, 0,0,0,0,0, 1,1,1,1,1, 1,1,1, 1,1,1,1,1, 1,1,1,1,1,1,1>>, 32)

\* A store mask that clears only bits 25..31 and keeps the old imm[4:0].
stype_mask_keeping_low ==
  FromBinary(<<0,0,0,0,0,0, 1,1,1,1,1, 1,1,1,1,1, 1,1,1, 1,1,1,1,1, 1,1,1,1,1,1,1>>, 32)

stype_mask ==
  FromBinary(<<0,0,0,0,0,0, 1,1,1,1,1, 1,1,1,1,1, 1,1,1, 0,0,0,0,0, 1,1,1,1,1,1,1>>, 32)

btype_mask ==
  FromBinary(<<0,0,0,0,0,0, 1,1,1,1,1, 1,1,1,1,1, 1,1,1, 0,0,0,0,0, 1,1,1,1,1,1,1>>, 32)

utype_mask ==
  FromBinary(<<0,0,0,0,0,0, 0,0,0,0,0, 0,0,0,0,0, 0,0,0, 1,1,1,1,1, 1,1,1,1,1,1,1>>, 32)

jtype_mask ==
  FromBinary(<<0,0,0,0,0,0, 0,0,0,0,0, 0,0,0,0,0, 0,0,0, 1,1,1,1,1, 1,1,1,1,1,1,1>>, 32)

cbtype_mask == FromBinary(<<1,1,1,0,0,0,1,1,1,0,0,0,0,0,1,1>>, 32)

cjtype_mask == FromBinary(<<1,1,1,0,0,0,0,0,0,0,0,0,0,0,1,1>>, 32)

\* The write operations: the new value of *loc, given its old value w.
write_itype(w, v) == Or(And(w, itype_mask), itype(v))

write_stype(w, v) == Or(And(w, stype_mask), stype(v))

write_btype(w, v) == Or(And(w, btype_mask), btype(v))

write_utype(w, v) == Or(And(w, utype_mask), utype(v))

write_jtype(w, v) == Or(And(w, jtype_mask), jtype(v))

\* loc is a u16 *: *loc is widened for the arithmetic, the result narrowed.
write_cbtype(w, v) == Cast(Or(And(Cast(w, 32), cbtype_mask), cbtype(v)), 16)

write_cjtype(w, v) == Cast(Or(And(Cast(w, 32), cjtype_mask), cjtype(v)), 16)

(***************************************************************************)
(* The codec on its own: one write operation applied to the instruction    *)
(* word at buf[0..3] with the value val.                                   *)
(***************************************************************************)

MaxDelta == 2

\* Low 12 bits around the two edges of the I-type sign extension, and two
\* alternating patterns.
LoParts ==
  {(e + d) % 4096 : e \in {0, 2048}, d \in (-MaxDelta)..MaxDelta} \cup {1365, 2730}

HiParts == {0, 1, -1, 524287, -524288, 349525, -349526}

CodecVals == {h * 4096 + l : h \in HiParts, l \in LoParts}

\* Instruction words: the stub templates of the source, and bit patterns.
CodecWords == {0, -1, 919, 933379, -45939949, 1431655765, -1431655766}

WordBytes(w) == Store(<<0, 0, 0, 0>>, 0, ToBits(w, 32))

\* No input section is being processed.
NoSection ==
  /\ rels = <<>> /\ rel_fragments = <<>> /\ kind = "PDE" /\ sec_addr = 0
  /\ idx = 0 /\ frag_idx = 0 /\ needs_dynrel = <<>> /\ needs_baserel = <<>>
  /\ symflags = <<>> /\ num_dynrel = 0 /\ reldyn_offset = 0 /\ file_reldyn = 0
  /\ reldyn = <<>> /\ dynrel = 0 /\ diag = {}

\* No stub is being emitted.
NoStubs == layout = <<>> /\ writer = <<>>

InitCodec ==
  /\ \E w \in CodecWords : buf = WordBytes(w)
  /\ contents = buf
  /\ val \in CodecVals
  /\ pc = "codec"
  /\ NoSection
  /\ NoStubs

\* A write through a u32 *loc (loc = buf).
Write32(op, new) ==
  /\ pc = "codec"
  /\ buf' = Store(buf, 0, new)
  /\ pc' = op
  /\ UNCHANGED <<contents, val, secvars>>

Do_write_itype == Write32("write_itype", write_itype(Load(buf, 0, 4), ToBits(val, 32)))

Do_write_stype == Write32("write_stype", write_stype(Load(buf, 0, 4), ToBits(val, 32)))

Do_write_btype == Write32("write_btype", write_btype(Load(buf, 0, 4), ToBits(val, 32)))

Do_write_utype == Write32("write_utype", write_utype(Load(buf, 0, 4), ToBits(val, 32)))

Do_write_jtype == Write32("write_jtype", write_jtype(Load(buf, 0, 4), ToBits(val, 32)))

Do_write_cbtype == Write32("write_cbtype", write_cbtype(Load(buf, 0, 2), ToBits(val, 32)))

Do_write_cjtype == Write32("write_cjtype", write_cjtype(Load(buf, 0, 2), ToBits(val, 32)))

NextCodec ==
  \/ Do_write_itype
  \/ Do_write_stype
  \/ Do_write_btype
  \/ Do_write_utype
  \/ Do_write_jtype
  \/ Do_write_cbtype
  \/ Do_write_cjtype

SpecCodec == InitCodec /\ [][NextCodec]_vars

\* The immediate field of each format: the bit positions the write replaces.
ImmField(op) ==
  CASE op = "write_itype"  -> 20..31
    [] op = "write_stype"  -> (25..31) \cup (7..11)
    [] op = "write_btype"  -> (25..31) \cup (7..11)
    [] op = "write_utype"  -> 12..31
    [] op = "write_jtype"  -> 12..31
    [] op = "write_cbtype" -> (10..12) \cup (2..6)
    [] op = "write_cjtype" -> 2..12

\* The encoding of v in each format.
Encode(op, v) ==
  CASE op = "write_itype"  -> itype(v)
    [] op = "write_stype"  -> stype(v)
    [] op = "write_btype"  -> btype(v)
    [] op = "write_utype"  -> utype(v)
    [] op = "write_jtype"  -> jtype(v)
    [] op = "write_cbtype" -> cbtype(v)
    [] op = "write_cjtype" -> cjtype(v)

WriteOps ==
  {"write_itype", "write_stype", "write_btype", "write_utype", "write_jtype",
   "write_cbtype", "write_cjtype"}

\* C5: after a write operation on the word w with the value v, every bit
\* outside the format's immediate field equals that bit of w, and every bit of
\* the immediate field is the bit the encoding of v puts there (nothing of w's
\* old immediate survives).
C5_WritePreservesNonImmediate ==
  pc \in WriteOps =>
    \A k \in 0..31 :
      IF k \in ImmField(pc)
      THEN MemBit(buf, 0, k) = Encode(pc, ToBits(val, 32))[k]
      ELSE MemBit(buf, 0, k) = MemBit(contents, 0, k)

\* C5 witness: a compressed-branch write that cleared a bit of the old
\* immediate and kept a set bit outside the field.
C5_Witness ==
  /\ pc = "write_cbtype"
  /\ \E k \in ImmField(pc) : MemBit(contents, 0, k) = 1 /\ MemBit(buf, 0, k) = 0
  /\ \E k \in (0..15) \ ImmField(pc) : MemBit(buf, 0, k) = 1

(***************************************************************************)
(* One input section: scan_relocations, then apply_reloc_alloc.            *)
(***************************************************************************)

\* The relocation types the two switches name, and one they do not.
UnsupportedTls ==
  {"R_RISCV_TLS_DTPMOD32", "R_RISCV_TLS_DTPMOD64", "R_RISCV_TLS_DTPREL32",
   "R_RISCV_TLS_DTPREL64", "R_RISCV_TLS_TPREL32", "R_RISCV_TLS_TPREL64"}

UnsupportedTlsHi20 == {"R_RISCV_TLS_GOT_HI20", "R_RISCV_TLS_GD_HI20"}

UnsupportedSet ==
  {"R_RISCV_SUB6", "R_RISCV_SET6", "R_RISCV_SET8", "R_RISCV_SET16", "R_RISCV_SET32"}

AddSubTypes ==
  {"R_RISCV_ADD8", "R_RISCV_ADD16", "R_RISCV_ADD32", "R_RISCV_ADD64",
   "R_RISCV_SUB8", "R_RISCV_SUB16", "R_RISCV_SUB32", "R_RISCV_SUB64"}

BranchTypes == {"R_RISCV_BRANCH", "R_RISCV_JAL", "R_RISCV_RVC_BRANCH", "R_RISCV_RVC_JUMP"}

\* Types whose case reads S, A or P.
ValueTypes ==
  {"R_RISCV_32", "R_RISCV_64", "R_RISCV_CALL", "R_RISCV_CALL_PLT", "R_RISCV_GOT_HI20",
   "R_RISCV_PCREL_HI20", "R_RISCV_LO12_I", "R_RISCV_TPREL_LO12_I", "R_RISCV_LO12_S",
   "R_RISCV_TPREL_LO12_S", "R_RISCV_HI20", "R_RISCV_TPREL_HI20"}
    \cup BranchTypes \cup AddSubTypes

PcrelLo12Types == {"R_RISCV_PCREL_LO12_I", "R_RISCV_PCREL_LO12_S"}

\* Types whose case reads nothing of the symbol's address.
PlainTypes ==
  {"R_RISCV_NONE", "R_RISCV_TPREL_ADD", "R_RISCV_ALIGN", "R_RISCV_RVC_LUI",
   "R_RISCV_RELAX", "R_RISCV_32_PCREL", "R_RISCV_COPY"}
    \cup UnsupportedTls \cup UnsupportedTlsHi20 \cup UnsupportedSet

RelTypes == ValueTypes \cup PcrelLo12Types \cup PlainTypes

\* file.symbols: what the symbol abstraction answers for each symbol.
\*   cat: get_sym_type; file: sym.file != nullptr; value: sym.value, for a
\*   symbol of this section (in_isec: sym.input_section == this).
Symbols ==
  << [name |-> "abs", cat |-> "ABS", file |-> TRUE, is_imported |-> FALSE,
      undef_weak |-> FALSE, ifunc |-> FALSE, addr |-> 291, got_addr |-> 16384,
      in_isec |-> FALSE, value |-> 291, dynsym_idx |-> -1],
     [name |-> "local", cat |-> "LOCAL", file |-> TRUE, is_imported |-> FALSE,
      undef_weak |-> FALSE, ifunc |-> FALSE, addr |-> 6148, got_addr |-> 16392,
      in_isec |-> FALSE, value |-> 4, dynsym_idx |-> -1],
     [name |-> "impdata", cat |-> "IMPORTED_DATA", file |-> TRUE, is_imported |-> TRUE,
      undef_weak |-> FALSE, ifunc |-> FALSE, addr |-> 12288, got_addr |-> 16400,
      in_isec |-> FALSE, value |-> 0, dynsym_idx |-> 1],
     [name |-> "impfunc", cat |-> "IMPORTED_CODE", file |-> TRUE, is_imported |-> TRUE,
      undef_weak |-> FALSE, ifunc |-> FALSE, addr |-> 8192, got_addr |-> 16408,
      in_isec |-> FALSE, value |-> 0, dynsym_idx |-> 2],
     [name |-> "weak", cat |-> "ABS", file |-> TRUE, is_imported |-> FALSE,
      undef_weak |-> TRUE, ifunc |-> FALSE, addr |-> 0, got_addr |-> 16416,
      in_isec |-> FALSE, value |-> 0, dynsym_idx |-> -1],
     [name |-> "ifunc", cat |-> "LOCAL", file |-> TRUE, is_imported |-> FALSE,
      undef_weak |-> FALSE, ifunc |-> TRUE, addr |-> 9216, got_addr |-> 16424,
      in_isec |-> FALSE, value |-> 0, dynsym_idx |-> -1],
     [name |-> "unresolved", cat |-> "ABS", file |-> FALSE, is_imported |-> FALSE,
      undef_weak |-> FALSE, ifunc |-> FALSE, addr |-> 0, got_addr |-> 0,
      in_isec |-> FALSE, value |-> 0, dynsym_idx |-> -1],
     [name |-> "L0", cat |-> "LOCAL", file |-> TRUE, is_imported |-> FALSE,
      undef_weak |-> FALSE, ifunc |-> FALSE, addr |-> 0, got_addr |-> 0,
      in_isec |-> TRUE, value |-> 0, dynsym_idx |-> -1],
     [name |-> "L8", cat |-> "LOCAL", file |-> TRUE, is_imported |-> FALSE,
      undef_weak |-> FALSE, ifunc |-> FALSE, addr |-> 8, got_addr |-> 0,
      in_isec |-> TRUE, value |-> 8, dynsym_idx |-> -1] >>

SymIds == DOMAIN Symbols

SymId(n) == CHOOSE s \in SymIds : Symbols[s].name = n

\* sym.get_addr(ctx): a symbol of this section lies at the section's address
\* plus its value.
get_addr(sym) == IF sym.in_isec THEN sec_addr + sym.value ELSE sym.addr

\* ctx.tls_begin.
tls_begin == 4096 * 5

SizeofElfRel == 24

(***************************************************************************)
(* scan_relocations.                                                       *)
(***************************************************************************)

\* The action tables: rows DSO, PIE, PDE; columns Absolute, Local, Imported
\* data, Imported code.
Table_32 ==
  << <<"NONE", "NONE", "ERROR",   "ERROR">>,
     <<"NONE", "NONE", "COPYREL", "PLT">>,
     <<"NONE", "NONE", "COPYREL", "PLT">> >>

Table_64_as_32 ==
  << <<"NONE", "NONE", "ERROR",   "ERROR">>,
     <<"NONE", "NONE", "COPYREL", "PLT">>,
     <<"NONE", "NONE", "COPYREL", "PLT">> >>

Table_64 ==
  << <<"NONE", "BASEREL", "DYNREL",  "DYNREL">>,
     <<"NONE", "BASEREL", "DYNREL",  "DYNREL">>,
     <<"NONE", "NONE",    "COPYREL", "PLT">> >>

Table_32_PCREL ==
  << <<"ERROR", "NONE", "ERROR",   "ERROR">>,
     <<"ERROR", "NONE", "COPYREL", "PLT">>,
     <<"NONE",  "NONE", "COPYREL", "PLT">> >>

\* What the switch of scan_relocations does for a type: dispatch a table, set
\* a flag, report, or nothing.
ScanCase(t) ==
  CASE t \in {"R_RISCV_32", "R_RISCV_HI20"} -> [do |-> "dispatch", table |-> Table_32]
    [] t = "R_RISCV_64" -> [do |-> "dispatch", table |-> Table_64]
    [] t \in UnsupportedTls -> [do |-> "unsupported"]
    [] t \in {"R_RISCV_BRANCH", "R_RISCV_JAL"} -> [do |-> "nothing"]
    [] t \in {"R_RISCV_CALL", "R_RISCV_CALL_PLT"} -> [do |-> "plt_if_imported"]
    [] t = "R_RISCV_GOT_HI20" -> [do |-> "got"]
    [] t \in UnsupportedTlsHi20 -> [do |-> "unsupported"]
    [] t \in {"R_RISCV_PCREL_HI20", "R_RISCV_PCREL_LO12_I", "R_RISCV_PCREL_LO12_S",
              "R_RISCV_LO12_I", "R_RISCV_LO12_S", "R_RISCV_TPREL_HI20",
              "R_RISCV_TPREL_LO12_I", "R_RISCV_TPREL_LO12_S", "R_RISCV_TPREL_ADD",
              "R_RISCV_ALIGN"} \cup AddSubTypes -> [do |-> "nothing"]
    [] t \in {"R_RISCV_RVC_BRANCH", "R_RISCV_RVC_JUMP"} -> [do |-> "nothing"]
    [] t = "R_RISCV_RVC_LUI" -> [do |-> "unsupported"]
    [] t = "R_RISCV_RELAX" -> [do |-> "nothing"]
    [] t \in UnsupportedSet -> [do |-> "unsupported"]
    [] t = "R_RISCV_32_PCREL" -> [do |-> "dispatch", table |-> Table_32_PCREL]
    [] OTHER -> [do |-> "unknown"]

\* get_output_type and get_sym_type, as indices into a table.
OutputRow(k) == CASE k = "DSO" -> 1 [] k = "PIE" -> 2 [] k = "PDE" -> 3

SymColumn(sym) ==
  CASE sym.cat = "ABS" -> 1 [] sym.cat = "LOCAL" -> 2
    [] sym.cat = "IMPORTED_DATA" -> 3 [] sym.cat = "IMPORTED_CODE" -> 4

\* dispatch: the cell of the table for this output kind and symbol.
dispatch(table, sym) == table[OutputRow(kind)][SymColumn(sym)]

\* The action scan_relocations takes for relocation i.
ScanAction(i) ==
  LET rel == rels[i]
      sym == Symbols[rel.r_sym]
      c == ScanCase(rel.r_type)
  IN  IF rel.r_type = "R_RISCV_NONE" THEN "skip"
      ELSE IF ~sym.file THEN "undefined"
      ELSE IF c.do = "dispatch" THEN dispatch(c.table, sym)
      ELSE c.do

\* The flags the selected action sets on the symbol.
ActionFlags(a, sym) ==
  CASE a = "COPYREL" -> {"NEEDS_COPYREL"}
    [] a = "PLT" -> {"NEEDS_PLT"}
    [] a = "got" -> {"NEEDS_GOT"}
    [] a = "plt_if_imported" -> IF sym.is_imported THEN {"NEEDS_PLT"} ELSE {}
    [] OTHER -> {}

\* The diagnostic the selected action reports, if any.
ActionDiag(a) ==
  CASE a = "unsupported" -> {"unsupported relocation"}
    [] a = "unknown" -> {"unknown relocation"}
    [] a = "undefined" -> {"undefined symbol"}
    [] a = "ERROR" -> {"relocation cannot be used"}
    [] OTHER -> {}

\* The slots of .rela.dyn the selected action reserves for relocation i.
ActionSlots(a, rel) ==
  CASE a = "DYNREL" -> 1
    [] a = "BASEREL" -> IF rel.relr THEN 0 ELSE 1
    [] OTHER -> 0

ScanBegin ==
  /\ pc = "start"
  /\ reldyn_offset' = num_dynrel * SizeofElfRel
  /\ idx' = 1
  /\ pc' = "scan"
  /\ UNCHANGED <<layout, writer, buf, contents, val, rels, rel_fragments, kind, sec_addr, frag_idx,
                 needs_dynrel, needs_baserel, symflags, num_dynrel, file_reldyn,
                 reldyn, dynrel, diag>>

ScanStep ==
  /\ pc = "scan"
  /\ idx <= Len(rels)
  /\ LET rel == rels[idx]
         sym == Symbols[rel.r_sym]
         a == ScanAction(idx)
         ifn == IF a \notin {"skip", "undefined"} /\ sym.ifunc
                THEN {"NEEDS_GOT", "NEEDS_PLT"} ELSE {}
     IN  /\ symflags' =
               [symflags EXCEPT ![rel.r_sym] = @ \cup ifn \cup ActionFlags(a, sym)]
         /\ needs_dynrel' = [needs_dynrel EXCEPT ![idx] = @ \/ (a = "DYNREL")]
         /\ needs_baserel' = [needs_baserel EXCEPT ![idx] = @ \/ (a = "BASEREL")]
         /\ num_dynrel' = num_dynrel + ActionSlots(a, rel)
         /\ diag' = diag \cup {<<"scan", d, idx>> : d \in ActionDiag(a)}
  /\ idx' = idx + 1
  /\ UNCHANGED <<layout, writer, buf, contents, pc, val, rels, rel_fragments, kind, sec_addr, frag_idx,
                 reldyn_offset, file_reldyn, reldyn, dynrel>>

\* The end of the scan pass: a reported error ends the link before any
\* section is written.
ScanEnd ==
  /\ pc = "scan"
  /\ idx > Len(rels)
  /\ pc' = IF diag = {} THEN "scanned" ELSE "aborted"
  /\ UNCHANGED <<buf, contents, val, secvars>>

(***************************************************************************)
(* apply_reloc_alloc.                                                      *)
(***************************************************************************)

U64(x) == ToBits(x, 64)

U32(x) == Cast(U64(x), 32)

\* The fragment reference of relocation i, if the next one is for it: a
\* sequence of none or one.
FragRef(i, fi) ==
  IF fi <= Len(rel_fragments) /\ rel_fragments[fi].idx = i
  THEN <<rel_fragments[fi]>> ELSE <<>>

\* The macros S, A and P.
MacroS(sym, fr) == IF fr # <<>> THEN fr[1].addr ELSE get_addr(sym)

MacroA(rel, fr) == IF fr # <<>> THEN fr[1].addend ELSE rel.r_addend

MacroP(rel) == sec_addr + rel.r_offset

\* G + GOT: sym.get_got_addr(ctx) - ctx.got->shdr.sh_addr + ctx.got->shdr.sh_addr.
MacroGplusGOT(sym) == sym.got_addr

\* The diagnostic of the switch of apply_reloc_alloc for a type, if any.
ApplyDiag(t) ==
  CASE t \in {"R_RISCV_32", "R_RISCV_64"} -> {}
    [] t \in UnsupportedTls -> {"unsupported relocation"}
    [] t \in {"R_RISCV_BRANCH", "R_RISCV_JAL", "R_RISCV_CALL", "R_RISCV_CALL_PLT",
              "R_RISCV_GOT_HI20"} -> {}
    [] t \in UnsupportedTlsHi20 -> {"unsupported relocation"}
    [] t \in {"R_RISCV_PCREL_HI20", "R_RISCV_PCREL_LO12_I", "R_RISCV_LO12_I",
              "R_RISCV_TPREL_LO12_I", "R_RISCV_PCREL_LO12_S", "R_RISCV_LO12_S",
              "R_RISCV_TPREL_LO12_S", "R_RISCV_HI20", "R_RISCV_TPREL_HI20",
              "R_RISCV_TPREL_ADD", "R_RISCV_ALIGN", "R_RISCV_RVC_BRANCH",
              "R_RISCV_RVC_JUMP", "R_RISCV_RELAX"} \cup AddSubTypes -> {}
    [] t = "R_RISCV_RVC_LUI" -> {"unsupported relocation"}
    [] t \in UnsupportedSet \cup {"R_RISCV_32_PCREL"} -> {"unsupported relocation"}
    [] OTHER -> {"unknown relocation"}

\* *(uN *)loc += v and *(uN *)loc -= v, N = 8 * n.
AddInPlace(b, off, n, v) == Store(b, off, Cast(Add(Cast(Load(b, off, n), 64), v), 8 * n))

SubInPlace(b, off, n, v) == Store(b, off, Cast(Sub(Cast(Load(b, off, n), 64), v), 8 * n))

\* The bytes of the section after the switch of pass 1 on one relocation.
ApplySwitch(b, rel, sym, S, A, P) ==
  LET t == rel.r_type
      off == rel.r_offset
  IN  CASE t = "R_RISCV_32" -> Store(b, off, U32(S + A))
        [] t = "R_RISCV_64" -> Store(b, off, U64(S + A))
        [] t = "R_RISCV_BRANCH" ->
             Store(b, off, write_btype(Load(b, off, 4), U32(S + A - P)))
        [] t = "R_RISCV_JAL" ->
             Store(b, off, write_jtype(Load(b, off, 4), U32(S + A - P)))
        [] t \in {"R_RISCV_CALL", "R_RISCV_CALL_PLT"} ->
             LET v == IF sym.undef_weak THEN U64(0) ELSE U64(S + A - P)
                 b1 == Store(b, off, write_utype(Load(b, off, 4), Cast(v, 32)))
             IN  Store(b1, off + 4, write_itype(Load(b1, off + 4, 4), Cast(v, 32)))
        [] t = "R_RISCV_GOT_HI20" -> Store(b, off, U32(MacroGplusGOT(sym) + A - P))
        [] t = "R_RISCV_PCREL_HI20" ->
             IF sym.undef_weak THEN Store(b, off, U32(P))
             ELSE Store(b, off, U32(S + A - P))
        [] t = "R_RISCV_PCREL_LO12_I" ->
             Store(b, off, write_itype(Load(b, off, 4), Load(b, sym.value, 4)))
        [] t \in {"R_RISCV_LO12_I", "R_RISCV_TPREL_LO12_I"} ->
             Store(b, off, write_itype(Load(b, off, 4), U32(S + A)))
        [] t = "R_RISCV_PCREL_LO12_S" ->
             Store(b, off, write_stype(Load(b, off, 4), Load(b, sym.value, 4)))
        [] t \in {"R_RISCV_LO12_S", "R_RISCV_TPREL_LO12_S"} ->
             Store(b, off, write_stype(Load(b, off, 4), U32(S + A)))
        [] t = "R_RISCV_HI20" -> Store(b, off, write_utype(Load(b, off, 4), U32(S + A)))
        [] t = "R_RISCV_TPREL_HI20" ->
             Store(b, off, write_utype(Load(b, off, 4), U32(S + A - tls_begin)))
        \* loc += S + A and loc -= S + A move the local pointer loc; no byte
        \* of the buffer is read or written.
        [] t \in {"R_RISCV_ADD8", "R_RISCV_SUB8"} -> b
        [] t = "R_RISCV_ADD16" -> AddInPlace(b, off, 2, U64(S + A))
        [] t = "R_RISCV_ADD32" -> AddInPlace(b, off, 4, U64(S + A))
        [] t = "R_RISCV_ADD64" -> AddInPlace(b, off, 8, U64(S + A))
        [] t = "R_RISCV_SUB16" -> SubInPlace(b, off, 2, U64(S + A))
        [] t = "R_RISCV_SUB32" -> SubInPlace(b, off, 4, U64(S + A))
        [] t = "R_RISCV_SUB64" -> SubInPlace(b, off, 8, U64(S + A))
        [] t = "R_RISCV_RVC_BRANCH" ->
             Store(b, off, write_cbtype(Load(b, off, 2), U32(S + A - P)))
        [] t = "R_RISCV_RVC_JUMP" ->
             Store(b, off, write_cjtype(Load(b, off, 2), U32(S + A - P)))
        [] OTHER -> b

\* Whether pass 1 writes a record at the cursor for relocation i.
EmitsRecord_ignoring_relr(i) == needs_dynrel[i] \/ needs_baserel[i]

EmitsRecord(i) == needs_dynrel[i] \/ (needs_baserel[i] /\ ~rels[i].relr)

\* The record pass 1 writes for relocation i.
DynRecord(i, sym, S, A, P) ==
  IF needs_dynrel[i]
  THEN [r_offset |-> P, r_type |-> "R_RISCV_64", r_sym |-> sym.dynsym_idx, r_addend |-> A]
  ELSE [r_offset |-> P, r_type |-> "R_RISCV_RELATIVE", r_sym |-> 0, r_addend |-> S + A]

NoRecord == [r_type |-> "none"]

\* The slot of .rela.dyn at a byte offset from the section's start.
SlotAt(o) == (o \div SizeofElfRel) + 1

ApplyBegin ==
  /\ pc = "scanned"
  /\ dynrel' = file_reldyn + reldyn_offset
  /\ frag_idx' = 1
  /\ idx' = 1
  /\ pc' = "apply"
  /\ UNCHANGED <<layout, writer, buf, contents, val, rels, rel_fragments, kind, sec_addr, needs_dynrel,
                 needs_baserel, symflags, num_dynrel, reldyn_offset, file_reldyn,
                 reldyn, diag>>

\* One iteration of the first loop.
ApplyStep ==
  /\ pc = "apply"
  /\ idx <= Len(rels)
  /\ LET rel == rels[idx]
         sym == Symbols[rel.r_sym]
         fr == FragRef(idx, frag_idx)
         S == MacroS(sym, fr)
         A == MacroA(rel, fr)
         P == MacroP(rel)
     IN  IF rel.r_type = "R_RISCV_NONE"
         THEN UNCHANGED <<buf, frag_idx, reldyn, dynrel, diag>>
         ELSE /\ frag_idx' = frag_idx + Len(fr)
              /\ IF EmitsRecord(idx)
                 THEN /\ reldyn' = [reldyn EXCEPT ![SlotAt(dynrel)] =
                                      DynRecord(idx, sym, S, A, P)]
                      /\ dynrel' = dynrel + SizeofElfRel
                 ELSE UNCHANGED <<reldyn, dynrel>>
              /\ IF needs_dynrel[idx]
                 THEN buf' = Store(buf, rel.r_offset, U64(A)) /\ diag' = diag
                 ELSE IF needs_baserel[idx]
                 THEN buf' = Store(buf, rel.r_offset, U64(S + A)) /\ diag' = diag
                 ELSE /\ buf' = ApplySwitch(buf, rel, sym, S, A, P)
                      /\ diag' = diag \cup {<<"apply", d, idx>> : d \in ApplyDiag(rel.r_type)}
  /\ idx' = idx + 1
  /\ UNCHANGED <<layout, writer, contents, pc, val, rels, rel_fragments, kind, sec_addr, needs_dynrel,
                 needs_baserel, symflags, num_dynrel, reldyn_offset, file_reldyn>>

\* The first loop is over; the second begins.
ApplyEnd ==
  /\ pc = "apply"
  /\ idx > Len(rels)
  /\ idx' = 1
  /\ pc' = "restore"
  /\ UNCHANGED <<layout, writer, buf, contents, val, rels, rel_fragments, kind, sec_addr, frag_idx,
                 needs_dynrel, needs_baserel, symflags, num_dynrel, reldyn_offset,
                 file_reldyn, reldyn, dynrel, diag>>

\* The instruction the second loop leaves at a HI20 relocation: cur is the
\* word pass 1 left there, orig the word of the input section's contents.
RestoreWord_in_place(cur, orig) == write_utype(cur, cur)

RestoreWord(cur, orig) == write_utype(orig, cur)

\* One iteration of the second loop.
RestoreStep ==
  /\ pc = "restore"
  /\ idx <= Len(rels)
  /\ LET r == rels[idx]
     IN  IF r.r_type \in {"R_RISCV_GOT_HI20", "R_RISCV_PCREL_HI20"}
         THEN buf' = Store(buf, r.r_offset,
                           RestoreWord(Load(buf, r.r_offset, 4),
                                       Load(contents, r.r_offset, 4)))
         ELSE buf' = buf
  /\ idx' = idx + 1
  /\ UNCHANGED <<layout, writer, contents, pc, val, rels, rel_fragments, kind, sec_addr, frag_idx,
                 needs_dynrel, needs_baserel, symflags, num_dynrel, reldyn_offset,
                 file_reldyn, reldyn, dynrel, diag>>

RestoreEnd ==
  /\ pc = "restore"
  /\ idx > Len(rels)
  /\ pc' = "done"
  /\ UNCHANGED <<buf, contents, val, secvars>>

(***************************************************************************)
(* The sections the model processes.                                       *)
(***************************************************************************)

MaxRels == 3

\* Relocation k of a section sits at byte offset 8 * k: relocated fields do
\* not overlap, and the section begins with a word no relocation touches.
SecSize == 8 * (MaxRels + 1)

RowPattern == <<151, 3, 197, 165, 3, 62, 206, 49>>

BufPatterns == {RowPattern, [j \in 1..8 |-> 255 - RowPattern[j]]}

SecBytes(pat) == [j \in 1..SecSize |-> pat[((j - 1) % 8) + 1]]

Addends == {0, 2047, 2048, -8191, 2147418112}

\* Symbols other than the labels of this section.
PlainSyms == {s \in SymIds : ~Symbols[s].in_isec}

Entry(t, s, a, r) == [r_type |-> t, r_sym |-> s, r_addend |-> a, relr |-> r]

\* A section of one relocation: every type, against every symbol.  The
\* addend varies where the type's case reads it, is_relr_reloc where it is
\* asked; a PC-relative LO12 refers to a label before it.
SingleMenu ==
  {Entry(t, s, a, FALSE) : t \in ValueTypes, s \in PlainSyms, a \in Addends}
    \cup {Entry("R_RISCV_64", s, 0, TRUE) : s \in PlainSyms}
    \cup {Entry(t, s, 0, FALSE) : t \in PlainTypes, s \in PlainSyms}
    \cup {Entry(t, SymId("L0"), 0, FALSE) : t \in PcrelLo12Types}

\* Longer sections: PC-relative HI20 / LO12 pairs, 64-bit words that need
\* dynamic or base relocations, and markers between them.
SeqMenu ==
  {Entry("R_RISCV_PCREL_HI20", SymId("local"), 0, FALSE),
   Entry("R_RISCV_PCREL_HI20", SymId("weak"), 0, FALSE),
   Entry("R_RISCV_PCREL_LO12_I", SymId("L8"), 0, FALSE),
   Entry("R_RISCV_PCREL_LO12_S", SymId("L8"), 0, FALSE),
   Entry("R_RISCV_64", SymId("local"), 0, FALSE),
   Entry("R_RISCV_64", SymId("local"), 0, TRUE),
   Entry("R_RISCV_64", SymId("impdata"), 4, FALSE),
   Entry("R_RISCV_RELAX", SymId("abs"), 0, FALSE)}

Place(m, k) ==
  [r_type |-> m.r_type, r_offset |-> 8 * k, r_sym |-> m.r_sym,
   r_addend |-> m.r_addend, relr |-> m.relr]

\* The asserts of the PCREL_LO12 cases hold of the input.
WellFormed(rs) ==
  \A k \in DOMAIN rs :
    rs[k].r_type \in PcrelLo12Types =>
      Symbols[rs[k].r_sym].in_isec /\ Symbols[rs[k].r_sym].value < rs[k].r_offset

SecRelLists ==
  {rs \in {[k \in DOMAIN l |-> Place(l[k], k)] : l \in
             {<<m>> : m \in SingleMenu} \cup UNION {[1..n -> SeqMenu] : n \in 2..MaxRels}} :
     WellFormed(rs)}

\* A fragment reference stands for a reference to a section symbol.
FragChoices(rs) ==
  IF Symbols[rs[1].r_sym].name = "local" /\ rs[1].r_type \in ValueTypes
     /\ rs[1].r_addend = 0 /\ Len(rs) = 1
  THEN {<<>>, <<[idx |-> 1, addr |-> 20496, addend |-> 6]>>}
  ELSE {<<>>}

\* file.reldyn_offset and file.num_dynrel as the sections before this one
\* left them.
ReldynBases == {<<0, 0>>, <<48, 1>>}

Init ==
  /\ rels \in SecRelLists
  /\ rel_fragments \in FragChoices(rels)
  /\ kind \in {"DSO", "PIE", "PDE"}
  /\ sec_addr = 4088
  /\ \E pat \in BufPatterns : contents = SecBytes(pat)
  /\ buf = contents
  /\ \E base \in ReldynBases : file_reldyn = base[1] /\ num_dynrel = base[2]
  /\ reldyn = [j \in 1..(SlotAt(file_reldyn) + num_dynrel + MaxRels) |-> NoRecord]
  /\ needs_dynrel = [k \in DOMAIN rels |-> FALSE]
  /\ needs_baserel = [k \in DOMAIN rels |-> FALSE]
  /\ symflags = [s \in SymIds |-> {}]
  /\ reldyn_offset = 0
  /\ dynrel = 0
  /\ idx = 0
  /\ frag_idx = 0
  /\ diag = {}
  /\ val = 0
  /\ pc = "start"
  /\ NoStubs

Next ==
  \/ ScanBegin
  \/ ScanStep
  \/ ScanEnd
  \/ ApplyBegin
  \/ ApplyStep
  \/ ApplyEnd
  \/ RestoreStep
  \/ RestoreEnd

Spec == Init /\ [][Next]_vars

(***************************************************************************)
(* Properties of scan_relocations and apply_reloc_alloc.                   *)
(***************************************************************************)

\* The values S, A and P of relocation i, read off the input.
FragsOf(i) == {f \in {rel_fragments[k] : k \in DOMAIN rel_fragments} : f.idx = i}

RelS(i) ==
  IF FragsOf(i) # {} THEN (CHOOSE f \in FragsOf(i) : TRUE).addr
  ELSE IF Symbols[rels[i].r_sym].in_isec
       THEN sec_addr + Symbols[rels[i].r_sym].value
       ELSE Symbols[rels[i].r_sym].addr

RelA(i) ==
  IF FragsOf(i) # {} THEN (CHOOSE f \in FragsOf(i) : TRUE).addend ELSE rels[i].r_addend

RelP(i) == sec_addr + rels[i].r_offset

RelSym(i) == Symbols[rels[i].r_sym]

\* Relocation j is a PC-relative LO12 that refers to the HI20 relocation i.
RefersTo(j, i) ==
  /\ i < j
  /\ rels[i].r_type = "R_RISCV_PCREL_HI20"
  /\ rels[j].r_type \in PcrelLo12Types
  /\ RelSym(j).in_isec
  /\ RelSym(j).value = rels[i].r_offset
  /\ rels[i].r_offset < rels[j].r_offset

\* C1: when apply_reloc_alloc is done with a section in which the PC-relative
\* LO12 relocation j refers to the PC-relative HI20 relocation i (not against
\* an undefined weak symbol), with d = S + A - P of relocation i: the
\* immediate field of the LO12 instruction holds d[11:0], bits 31:12 of the
\* HI20 instruction hold (d + 0x800)[31:12], and bits 11:0 of the HI20
\* instruction are those of the input section's contents.
C1_Hi20Lo12Pair ==
  pc = "done" =>
    \A i, j \in DOMAIN rels :
      (RefersTo(j, i) /\ ~RelSym(i).undef_weak) =>
        LET d == RelS(i) + RelA(i) - RelP(i)
            hi == rels[i].r_offset
            lo == rels[j].r_offset
        IN  /\ rels[j].r_type = "R_RISCV_PCREL_LO12_I" =>
                 \A k \in 0..11 : MemBit(buf, lo, 20 + k) = IntBit(d, k)
            /\ rels[j].r_type = "R_RISCV_PCREL_LO12_S" =>
                 /\ \A k \in 0..4 : MemBit(buf, lo, 7 + k) = IntBit(d, k)
                 /\ \A k \in 5..11 : MemBit(buf, lo, 20 + k) = IntBit(d, k)
            /\ \A k \in 12..31 : MemBit(buf, hi, k) = IntBit(d + 2048, k)
            /\ \A k \in 0..11 : MemBit(buf, hi, k) = MemBit(contents, hi, k)

\* C1 witness: a HI20, a 64-bit word, then the store-format LO12 that refers
\* to the HI20, all applied; the HI20 instruction has opcode bits set.
C1_Witness ==
  /\ pc = "done"
  /\ Len(rels) = 3
  /\ RefersTo(3, 1)
  /\ ~RelSym(1).undef_weak
  /\ rels[2].r_type = "R_RISCV_64"
  /\ rels[3].r_type = "R_RISCV_PCREL_LO12_S"
  /\ \E k \in 0..11 : MemBit(contents, rels[1].r_offset, k) = 1
  /\ buf # contents

\* The 32-bit value that a U-type instruction followed by an I-type
\* instruction builds: bits 31:12 of the first, plus the sign-extended bits
\* 31:20 of the second.
Reconstruct(u, i) ==
  Add([k \in 0..31 |-> IF k >= 12 THEN u[k] ELSE 0],
      [k \in 0..31 |-> IF k <= 11 THEN i[20 + k] ELSE i[31]])

CallTypes == {"R_RISCV_CALL", "R_RISCV_CALL_PLT"}

Consumers(n) ==
  {i \in 1..n : /\ rels[i].r_type # "R_RISCV_NONE"
                /\ \/ needs_dynrel[i]
                   \/ needs_baserel[i] /\ ~rels[i].relr}

\* The relocations among the first n with needs_dynrel or needs_baserel set.
Flagged(n) == {i \in 1..n : needs_dynrel[i] \/ needs_baserel[i]}

\* How many relocations pass 1 has been through.
Passed == IF pc = "apply" THEN idx - 1 ELSE Len(rels)

WrittenSlots == {j \in DOMAIN reldyn : reldyn[j] # NoRecord}

FirstSlot == SlotAt(file_reldyn + reldyn_offset)

\* C7 (amended): during and after pass 1, the relocations passed that have
\* needs_dynrel set, or needs_baserel set and is_relr_reloc false, have each
\* written one record: the k-th of them, in list order, into slot k of the range
\* that starts at file.reldyn_offset + this->reldyn_offset.  No other slot is
\* written; a relocation with neither flag, or with needs_baserel and
\* is_relr_reloc, writes none.
C7_OneSlotPerDynRecord ==
  pc \in {"apply", "restore", "done"} =>
    LET c == Consumers(Passed)
    IN  /\ WrittenSlots = {FirstSlot + k : k \in 0..(Cardinality(c) - 1)}
        /\ \A i \in c :
             LET k == Cardinality({h \in c : h < i})
             IN  reldyn[FirstSlot + k].r_offset = RelP(i)
        /\ dynrel = file_reldyn + reldyn_offset + SizeofElfRel * Cardinality(c)

\* C7 as claimed: every relocation with needs_dynrel or needs_baserel
\* consumes exactly one slot, so after pass 1 as many slots are written as
\* there are flagged relocations.
C7_OneSlotPerFlagged ==
  pc \in {"restore", "done"} =>
    /\ Cardinality(WrittenSlots) = Cardinality(Flagged(Len(rels)))
    /\ WrittenSlots = {FirstSlot + k : k \in 0..(Cardinality(Flagged(Len(rels))) - 1)}

\* C7 witness: pass 1 is over a section that starts past slot 1, with two
\* records written and one base relocation left to RELR between them.
C7_Witness ==
  /\ pc = "restore"
  /\ Len(rels) = 3
  /\ FirstSlot > 1
  /\ needs_baserel[2] /\ rels[2].relr
  /\ Consumers(3) = {1, 3}
  /\ reldyn[FirstSlot].r_type = "R_RISCV_64"
  /\ reldyn[FirstSlot + 1].r_type = "R_RISCV_RELATIVE"

\* C2 as claimed: once both passes are done with a section, a relocation has
\* an "unsupported relocation" report from scan_relocations if and only if it
\* has one from apply_reloc_alloc.
C2_ScanApplyConsistent ==
  pc = "done" =>
    \A i \in DOMAIN rels :
      (<<"scan", "unsupported relocation", i>> \in diag)
        <=> (<<"apply", "unsupported relocation", i>> \in diag)

\* The action the claim C3 gives for an R_RISCV_64 relocation.
Expected64(k, cat) ==
  CASE cat = "ABS" -> "NONE"
    [] cat = "LOCAL" -> IF k \in {"DSO", "PIE"} THEN "BASEREL" ELSE "NONE"
    [] cat = "IMPORTED_DATA" -> IF k \in {"DSO", "PIE"} THEN "DYNREL" ELSE "COPYREL"
    [] cat = "IMPORTED_CODE" -> IF k \in {"DSO", "PIE"} THEN "DYNREL" ELSE "PLT"

\* The relocations scan_relocations has been through.
Scanned == IF pc = "start" THEN 0 ELSE IF pc = "scan" THEN idx - 1 ELSE Len(rels)

\* C3: once scan_relocations has been through an R_RISCV_64 relocation i
\* against a resolved symbol, what it has set is what the claimed table
\* selects for the output kind and the symbol's category: needs_baserel[i] for
\* BASEREL, needs_dynrel[i] for DYNREL, NEEDS_COPYREL on the symbol for COPYREL,
\* NEEDS_PLT for PLT, none of these for no action, and no diagnostic.
C3_Table64 ==
  \A i \in 1..Scanned :
    (rels[i].r_type = "R_RISCV_64" /\ RelSym(i).file) =>
      LET e == Expected64(kind, RelSym(i).cat)
          f == symflags[rels[i].r_sym]
      IN  /\ needs_baserel[i] = (e = "BASEREL")
          /\ needs_dynrel[i] = (e = "DYNREL")
          /\ ("NEEDS_COPYREL" \in f) = (e = "COPYREL")
          /\ ~RelSym(i).ifunc => (("NEEDS_PLT" \in f) = (e = "PLT"))
          /\ \A d \in diag : ~(d[1] = "scan" /\ d[3] = i)

\* C3 witness: a shared object, an R_RISCV_64 against a local symbol, and
\* the scan has selected BASEREL for it.
C3_Witness ==
  /\ pc = "scanned"
  /\ kind = "DSO"
  /\ rels[1].r_type = "R_RISCV_64"
  /\ RelSym(1).cat = "LOCAL"
  /\ needs_baserel[1] /\ ~needs_dynrel[1]

\* Width in bytes of an add / sub relocation, and whether it adds.
AddSubWidth(t) ==
  CASE t \in {"R_RISCV_ADD8", "R_RISCV_SUB8"} -> 1
    [] t \in {"R_RISCV_ADD16", "R_RISCV_SUB16"} -> 2
    [] t \in {"R_RISCV_ADD32", "R_RISCV_SUB32"} -> 4
    [] t \in {"R_RISCV_ADD64", "R_RISCV_SUB64"} -> 8

IsAdd(t) == t \in {"R_RISCV_ADD8", "R_RISCV_ADD16", "R_RISCV_ADD32", "R_RISCV_ADD64"}

\* C8 as claimed: when apply_reloc_alloc is done with a section of one add or
\* sub relocation, the value of the relocation's width at its offset is the
\* old value plus (minus) S + A modulo 2^width, and no other byte has changed;
\* for ADD8 and SUB8 that value is one byte.
C8_InPlaceArithmetic ==
  (pc = "done" /\ Len(rels) = 1 /\ rels[1].r_type \in AddSubTypes) =>
    LET t == rels[1].r_type
        v == U64(RelS(1) + RelA(1))
    IN  buf = IF IsAdd(t)
              THEN AddInPlace(contents, rels[1].r_offset, AddSubWidth(t), v)
              ELSE SubInPlace(contents, rels[1].r_offset, AddSubWidth(t), v)

\* C9 as claimed: when apply_reloc_alloc is done, every branch or jump
\* relocation whose displacement S + A - P is odd has a diagnostic.
C9_OddDisplacementRejected ==
  pc = "done" =>
    \A i \in DOMAIN rels :
      (rels[i].r_type \in BranchTypes /\ (RelS(i) + RelA(i) - RelP(i)) % 2 = 1) =>
        \E d \in diag : d[1] = "apply" /\ d[3] = i

(***************************************************************************)
(* EhFrameSection::apply_reloc: one call, on the bytes of .eh_frame.       *)
(* rels holds the relocation passed, its r_offset the offset argument;     *)
(* sec_addr is this->shdr.sh_addr and val the value argument.              *)
(***************************************************************************)

EhHandled ==
  {"R_RISCV_ADD32", "R_RISCV_SUB8", "R_RISCV_SUB16", "R_RISCV_SUB32", "R_RISCV_SUB6",
   "R_RISCV_SET6", "R_RISCV_SET8", "R_RISCV_SET16", "R_RISCV_32_PCREL"}

\* The bytes of the section after the switch of apply_reloc.
EhSwitch(b, t, off, v) ==
  CASE t = "R_RISCV_ADD32" -> AddInPlace(b, off, 4, v)
    [] t = "R_RISCV_SUB8" -> SubInPlace(b, off, 1, v)
    [] t = "R_RISCV_SUB16" -> SubInPlace(b, off, 2, v)
    [] t = "R_RISCV_SUB32" -> SubInPlace(b, off, 4, v)
    [] t = "R_RISCV_SUB6" ->
         Store(b, off, Cast(And(Sub(Cast(Load(b, off, 1), 64), v),
                                FromBinary(<<1, 1, 1, 1, 1, 1>>, 64)), 8))
    [] t = "R_RISCV_SET6" ->
         Store(b, off, Cast(And(Add(Cast(Load(b, off, 1), 64), v),
                                FromBinary(<<1, 1, 1, 1, 1, 1>>, 64)), 8))
    [] t = "R_RISCV_SET8" -> Store(b, off, Cast(v, 8))
    [] t = "R_RISCV_SET16" -> Store(b, off, Cast(v, 16))
    [] t = "R_RISCV_32_PCREL" ->
         Store(b, off, Cast(Sub(Sub(v, U64(sec_addr)), U64(off)), 32))
    [] OTHER -> b

EhFrame_apply_reloc ==
  /\ pc = "eh"
  /\ LET t == rels[1].r_type
     IN  /\ buf' = EhSwitch(buf, t, rels[1].r_offset, U64(val))
         /\ diag' = IF t \in EhHandled THEN diag
                    ELSE diag \cup {<<"eh_frame", "unsupported relocation in .eh_frame", 1>>}
         /\ pc' = IF t \in EhHandled THEN "eh_done" ELSE "eh_fatal"
  /\ UNCHANGED <<layout, writer, contents, val, rels, rel_fragments, kind, sec_addr, idx,
                 frag_idx, needs_dynrel, needs_baserel, symflags, num_dynrel,
                 reldyn_offset, file_reldyn, reldyn, dynrel>>

EhVals == {b + d : b \in {0, 64, 256, 65536}, d \in 0..MaxDelta} \cup {-1, 8}

InitEh ==
  /\ \E t \in EhHandled \cup {"R_RISCV_64"}, off \in {0, 4} :
       rels = <<[r_type |-> t, r_offset |-> off]>>
  /\ \E pat \in BufPatterns : contents = pat
  /\ buf = contents
  /\ val \in EhVals
  /\ sec_addr = 8192
  /\ pc = "eh"
  /\ rel_fragments = <<>> /\ kind = "PDE" /\ idx = 0 /\ frag_idx = 0
  /\ needs_dynrel = <<>> /\ needs_baserel = <<>> /\ symflags = <<>> /\ num_dynrel = 0
  /\ reldyn_offset = 0 /\ file_reldyn = 0 /\ reldyn = <<>> /\ dynrel = 0 /\ diag = {}
  /\ NoStubs

NextEh == EhFrame_apply_reloc

SpecEh == InitEh /\ [][NextEh]_vars

\* C6 as claimed: after apply_reloc with R_RISCV_SUB6 or R_RISCV_SET6 on the
\* byte b with the value val, bits 7:6 of the byte are those of b and bits 5:0
\* are (b - val) mod 64 for SUB6, val mod 64 for SET6.
C6_SixBitKinds ==
  (pc = "eh_done" /\ rels[1].r_type \in {"R_RISCV_SUB6", "R_RISCV_SET6"}) =>
    LET b == contents[rels[1].r_offset + 1]
        n == buf[rels[1].r_offset + 1]
    IN  /\ n \div 64 = b \div 64
        /\ n % 64 = IF rels[1].r_type = "R_RISCV_SUB6" THEN (b - val) % 64 ELSE val % 64

(***************************************************************************)
(* The stub emitters: PltSection::copy_buf and PltGotSection::copy_buf on  *)
(* an output buffer that holds .plt and .plt.got, run once each in either  *)
(* order.                                                                  *)
(***************************************************************************)

plt0 == <<919, 1103299379, 245251, -45939949, 230035, 1266451, 8565379, 917607>>

plt_entry_data == <<3607, 933379, 918375, 19>>

pltgot_entry_data == <<3607, 933379, 918375, 19>>

\* ctx.plt_hdr_size and ctx.plt_size.
plt_hdr_size == 32

plt_size == 16

\* memcpy(b + off, words, sizeof(words)), words an array of u32.
Memcpy(b, off, words) ==
  [j \in DOMAIN b |->
     IF j - 1 >= off /\ j - 1 < off + 4 * Len(words)
     THEN ByteOf(ToBits(words[((j - 1 - off) \div 4) + 1], 32), (j - 1 - off) % 4)
     ELSE b[j]]

\* write_utype / write_itype on the instruction word at byte offset off.
PatchU(b, off, d) == Store(b, off, write_utype(Load(b, off, 4), d))

PatchI(b, off, d) == Store(b, off, write_itype(Load(b, off, 4), d))

write_plt_header(b) ==
  LET o == layout.plt_off
      d == U32(layout.gotplt_addr - layout.plt_addr)
  IN  PatchI(PatchI(PatchU(Memcpy(b, o, plt0), o, d), o + 8, d), o + 16, d)

\* Where the PLT entry with index k is written.
plt_entry_loc(k) == layout.plt_off + plt_hdr_size + k * plt_size

\* sym.get_gotplt_addr and sym.get_plt_addr of the symbol with PLT index k,
\* as the layout assigns them.
plt_sym_gotplt_addr(k) == layout.gotplt_addr + 8 * (k + 2)

plt_sym_plt_addr(k) == layout.plt_addr + plt_hdr_size + k * plt_size

write_plt_entry(b, k) ==
  LET ent == plt_entry_loc(k)
      d == U32(plt_sym_gotplt_addr(k) - plt_sym_plt_addr(k))
  IN  PatchI(PatchU(Memcpy(b, ent, plt_entry_data), ent, d), ent + 4, d)

RECURSIVE PltEntries(_, _)
PltEntries(b, k) ==
  IF k >= layout.nplt THEN b ELSE PltEntries(write_plt_entry(b, k), k + 1)

\* Where PltGotSection::copy_buf writes the entry with index k: buf is
\* ctx.buf + ctx.plt->shdr.sh_offset, ent is buf + k * 4 in u32 units.
pltgot_entry_loc(k) == layout.plt_off + (k * 4) * 4

\* sym.get_got_addr and sym.get_plt_addr of the symbol with PLT-via-GOT index
\* k, as the layout assigns them.
pltgot_sym_got_addr(k) == layout.got_addr + 8 * k

pltgot_sym_plt_addr(k) == layout.pltgot_addr + (k * 4) * 4

write_pltgot_entry(b, k) ==
  LET ent == pltgot_entry_loc(k)
      d == U32(pltgot_sym_got_addr(k) - pltgot_sym_plt_addr(k))
  IN  PatchI(PatchU(Memcpy(b, ent, pltgot_entry_data), ent, d), ent + 4, d)

RECURSIVE PltGotEntries(_, _)
PltGotEntries(b, k) ==
  IF k >= layout.npltgot THEN b ELSE PltGotEntries(write_pltgot_entry(b, k), k + 1)

\* The byte offsets each emitter writes.
PltWrites ==
  (layout.plt_off .. (layout.plt_off + 4 * Len(plt0) - 1))
    \cup UNION {plt_entry_loc(k) .. (plt_entry_loc(k) + 4 * Len(plt_entry_data) - 1) :
                  k \in 0..(layout.nplt - 1)}

PltGotWrites ==
  UNION {pltgot_entry_loc(k) .. (pltgot_entry_loc(k) + 4 * Len(pltgot_entry_data) - 1) :
           k \in 0..(layout.npltgot - 1)}

Mark(w, offs, who) == [j \in DOMAIN w |-> IF j - 1 \in offs THEN w[j] \cup {who} ELSE w[j]]

PltSection_copy_buf ==
  /\ pc \in {"stubs", "pltgot"}
  /\ buf' = PltEntries(write_plt_header(buf), 0)
  /\ writer' = Mark(writer, PltWrites, "PltSection")
  /\ pc' = IF pc = "stubs" THEN "plt" ELSE "pltgot_plt"
  /\ UNCHANGED <<layout, contents, val, rels, rel_fragments, kind, sec_addr, idx, frag_idx,
                 needs_dynrel, needs_baserel, symflags, num_dynrel, reldyn_offset,
                 file_reldyn, reldyn, dynrel, diag>>

PltGotSection_copy_buf ==
  /\ pc \in {"stubs", "plt"}
  /\ buf' = PltGotEntries(buf, 0)
  /\ writer' = Mark(writer, PltGotWrites, "PltGotSection")
  /\ pc' = IF pc = "stubs" THEN "pltgot" ELSE "plt_pltgot"
  /\ UNCHANGED <<layout, contents, val, rels, rel_fragments, kind, sec_addr, idx, frag_idx,
                 needs_dynrel, needs_baserel, symflags, num_dynrel, reldyn_offset,
                 file_reldyn, reldyn, dynrel, diag>>

MaxPlt == 2

MaxPltGot == 2

\* .plt and .plt.got in either order in the file, next to each other or 16
\* bytes apart; addresses are file offsets plus 0x10000.
Layouts ==
  {[plt_off |-> IF first = "plt" THEN 0 ELSE 16 * m + gap,
    pltgot_off |-> IF first = "plt" THEN 32 + 16 * n + gap ELSE 0,
    plt_addr |-> 65536 + (IF first = "plt" THEN 0 ELSE 16 * m + gap),
    pltgot_addr |-> 65536 + (IF first = "plt" THEN 32 + 16 * n + gap ELSE 0),
    gotplt_addr |-> gp, got_addr |-> g, nplt |-> n, npltgot |-> m, gap |-> gap] :
     first \in {"plt", "pltgot"}, gap \in {0, 16}, n \in 0..MaxPlt, m \in 0..MaxPltGot,
     gp \in {73728, 75768}, g \in {81920, 83960}}

InitPlt ==
  /\ layout \in Layouts
  /\ buf = [j \in 1..(32 + 16 * layout.nplt + 16 * layout.npltgot + layout.gap
                        + 16 * MaxPltGot) |-> 0]
  /\ contents = buf
  /\ writer = [j \in DOMAIN buf |-> {}]
  /\ pc = "stubs"
  /\ val = 0
  /\ NoSection

NextPlt ==
  \/ PltSection_copy_buf
  \/ PltGotSection_copy_buf

SpecPlt == InitPlt /\ [][NextPlt]_vars

\* The byte offsets of the two sections in the output buffer.
PltRange == layout.plt_off .. (layout.plt_off + 32 + 16 * layout.nplt - 1)

PltGotRange == layout.pltgot_off .. (layout.pltgot_off + 16 * layout.npltgot - 1)

\* C10 as claimed: whatever has run, PltGotSection::copy_buf has written only
\* bytes of the PLT-via-GOT section's own range, and no byte of the PLT header
\* or of a PLT entry.
C10_PltGotWritesOwnRange ==
  \A j \in DOMAIN writer :
    "PltGotSection" \in writer[j] => (j - 1 \in PltGotRange /\ j - 1 \notin PltRange)

====
